---- MODULE Spec2Model ----
(***************************************************************************)
(* The host side of main.go: a Go client that drives the Wasm build of     *)
(* SQLite through exported functions and guest linear memory.  The guest   *)
(* module (the SQLite engine) is the environment: every exported call      *)
(* either traps or returns with an outcome drawn from a small set.         *)
(*                                                                         *)
(* Scaling: a byte holds ByteMod values, a u32 is four little-endian       *)
(* bytes (U32 = ByteMod^4 values) and a u64 is two u32 (U64 = U32^2).      *)
(***************************************************************************)
EXTENDS Integers, Sequences, FiniteSets, TLC

\* ---------------------------------------------------------------- bounds
ByteMod == 4
MemSize == 16
MaxRows == 3

U32 == ByteMod * ByteMod * ByteMod * ByteMod
U64 == U32 * U32

\* ------------------------------------------------------------- constants
SQLITE_ROW == 100
OpenFlags == 6

\* The string literals main.go writes into guest memory, as byte strings.
DbName == <<1, 2>>
EmptyStr == << >>
CreateSql == <<1, 1, 3>>
InsertSql == <<2, 0, 3, 1>>
SelectSql == <<3, 2>>

VARIABLES
  pc,          \* call stack of code labels, innermost first
  verb,        \* which of newSqlModule / execSql / execSelectUsers main is in
  mem,         \* guest linear memory: address -> byte
  resultPtr,   \* guest global returned by get_result_ptr
  resultSize,  \* guest global returned by get_result_size
  nrows,       \* guest: rows the step export has produced for the statement
  dbHandle,    \* sqliteModule.dbHandle
  str,         \* allocateString: parameter str
  allocRes,    \* allocateString: res[0]
  aptr, asize, \* allocateString: returned (ptr, size)
  dbNamePtr, dbNameSize, \* newSqlModule locals
  res,         \* res[0] of the last getResultPtr.Call
  ctx,         \* ensureStatusCodeSuccess: parameter errMsg
  errMsgPtr, errMsgSize, errMsg, \* execSql locals
  stmt, rc, id, textPtr, textSize, users, \* execSelectUsers / readText locals
  mainUsers,   \* main: users
  out,         \* lines printed by main's fmt.Printf
  err,         \* the panic that ended the process, if any
  log          \* history: exported calls and host memory accesses, in order

guest == <<mem, resultPtr, resultSize, nrows>>
allocVars == <<str, allocRes, aptr, asize>>
newVars == <<dbNamePtr, dbNameSize>>
execVars == <<errMsgPtr, errMsgSize, errMsg>>
selVars == <<stmt, rc, id, textPtr, textSize, users>>
mainVars == <<mainUsers, out>>
vars == <<pc, verb, mem, resultPtr, resultSize, nrows, dbHandle, str, allocRes,
          aptr, asize, dbNamePtr, dbNameSize, res, ctx, errMsgPtr, errMsgSize,
          errMsg, stmt, rc, id, textPtr, textSize, users, mainUsers, out, err, log>>

\* ------------------------------------------------------- integer widths
\* uint32(x) of a uint64 x
Trunc32(x) == x % U32
\* x + k in uint64 arithmetic
Add64(x, k) == (x + k) % U64
\* int(x) of a uint64 x on a 64-bit platform (two's complement)
ToInt(x) == IF x >= U64 \div 2 THEN x - U64 ELSE x

\* ------------------------------------------------------- guest memory
\* api.Memory.Read / ReadUint32Le / Write bounds check: offset+count <= size
HasSize(m, offset, count) == offset + count <= MemSize

ReadBytes(m, offset, count) == [k \in 1..count |-> m[offset + k - 1]]

\* api.Memory.Read(offset, size) -> (bytes, ok)
MemRead(m, offset, count) ==
  IF HasSize(m, offset, count)
  THEN [ok |-> TRUE, bytes |-> ReadBytes(m, offset, count)]
  ELSE [ok |-> FALSE, bytes |-> << >>]

LeDecode(bs) ==
  bs[1] + ByteMod * bs[2] + ByteMod * ByteMod * bs[3]
        + ByteMod * ByteMod * ByteMod * bs[4]

LeEncode(v) ==
  <<v % ByteMod, (v \div ByteMod) % ByteMod,
    (v \div (ByteMod * ByteMod)) % ByteMod,
    (v \div (ByteMod * ByteMod * ByteMod)) % ByteMod>>

\* api.Memory.ReadUint32Le(offset) -> (value, ok); value is 0 when !ok
ReadUint32Le(m, offset) ==
  IF HasSize(m, offset, 4)
  THEN [ok |-> TRUE, val |-> LeDecode(ReadBytes(m, offset, 4))]
  ELSE [ok |-> FALSE, val |-> 0]

PutBytes(m, offset, bs) ==
  [a \in DOMAIN m |->
     IF a >= offset /\ a < offset + Len(bs) THEN bs[a - offset + 1] ELSE m[a]]

\* api.Memory.Write(offset, bytes) -> ok
MemWrite(m, offset, bs) ==
  IF HasSize(m, offset, Len(bs))
  THEN [ok |-> TRUE, mem |-> PutBytes(m, offset, bs)]
  ELSE [ok |-> FALSE, mem |-> m]

\* A store by guest code: it cannot write outside its own memory.
GuestPut(m, offset, bs) == MemWrite(m, offset, bs).mem

\* ------------------------------------------------------- Go strings
\* A context string is either a literal of the program or bytes read from
\* guest memory.
Lit(s) == [lit |-> s, raw |-> << >>]
Raw(bs) == [lit |-> "", raw |-> bs]

\* ------------------------------------------------------- control
Top == Head(pc)
Goto(l) == pc' = <<l>> \o Tail(pc)
Call(f, r) == pc' = <<f, r>> \o Tail(pc)
Return == pc' = Tail(pc)
NoErr == [at |-> "", msg |-> "", code |-> 0, detail |-> Lit("")]
\* A failure after which the failed step is taken again.
Panic_Retry(at, msg, code, detail) ==
  /\ pc' = pc
  /\ err' = [at |-> at, msg |-> msg, code |-> code, detail |-> detail]

\* log.Panicln / log.Panicf: the process ends
Panic(at, msg, code, detail) ==
  /\ pc' = <<"panic">>
  /\ err' = [at |-> at, msg |-> msg, code |-> code, detail |-> detail]

Entry(op, args, ret, data) == [op |-> op, args |-> args, ret |-> ret, data |-> data]
Logged(e) == log' = Append(log, e)
Trap == 0 - 1

Init ==
  /\ pc = <<"main_new">>
  /\ verb = ""
  /\ mem = [a \in 0..(MemSize - 1) |-> 0]
  /\ resultPtr = 0 /\ resultSize = 0 /\ nrows = 0
  /\ dbHandle = 0
  /\ str = << >> /\ allocRes = 0 /\ aptr = 0 /\ asize = 0
  /\ dbNamePtr = 0 /\ dbNameSize = 0
  /\ res = 0 /\ ctx = Lit("")
  /\ errMsgPtr = 0 /\ errMsgSize = 0 /\ errMsg = << >>
  /\ stmt = 0 /\ rc = 0 /\ id = 0 /\ textPtr = 0 /\ textSize = 0
  /\ users = << >>
  /\ mainUsers = << >> /\ out = << >>
  /\ err = NoErr
  /\ log = << >>

\* ------------------------------------------------------- the guest module
\* What the exported functions of sqlite3.wasm may do, as seen by the host.
AllocPtrs == {MemSize - 4, MemSize - 1}
\* Result pointers: all fields readable; only the status readable; the status
\* unreadable (and res+4 wrapping to 0 in uint32).  For exec also one with
\* the message pointer readable and the message size not.
ResPtrs == {0, MemSize - 6, U32 - 4}
ExecResPtrs == ResPtrs \cup {MemSize - 8}
Statuses == {0, 1}
DbHandles == {5}
StmtHandles == {0, 9}
OpenOutcomes == [rp : ResPtrs, status : Statuses, handle : DbHandles]
PrepareOutcomes == [rp : ResPtrs, status : Statuses, handle : StmtHandles]
ExecMsgs ==
  { [status |-> 0, ptr |-> 0, size |-> 0, bytes |-> << >>],
    [status |-> 0, ptr |-> MemSize - 4, size |-> 2, bytes |-> <<1, 3>>],
    [status |-> 0, ptr |-> MemSize - 1, size |-> 2, bytes |-> << >>],
    [status |-> 1, ptr |-> MemSize - 4, size |-> 2, bytes |-> <<3, 1>>],
    [status |-> 1, ptr |-> 0, size |-> 0, bytes |-> << >>],
    [status |-> 1, ptr |-> MemSize + 5, size |-> 0, bytes |-> << >>],
    [status |-> 1, ptr |-> MemSize - 1, size |-> 2, bytes |-> << >>] }
StepRets == (IF nrows < MaxRows THEN {SQLITE_ROW} ELSE {}) \cup {101, 1}
IntVals == {nrows - 1, U64 - 1}
TextOf(row) == [k \in 1..((row % 3) + 1) |-> (row % (ByteMod - 1)) + 1]
TextOutcomes ==
  { [ptr |-> MemSize - 4, size |-> Len(TextOf(nrows - 1)), bytes |-> TextOf(nrows - 1)],
    [ptr |-> MemSize, size |-> 0, bytes |-> << >>],
    [ptr |-> MemSize - 1, size |-> 2, bytes |-> << >>],
    [ptr |-> MemSize + 1, size |-> 0, bytes |-> << >>] }

\* The guest stores a two-word result (status, handle) at rp.
GuestEnvelope2(m, rp, status, handle) ==
  GuestPut(GuestPut(m, rp + 4, LeEncode(handle)), rp, LeEncode(status))
\* The guest stores the message bytes, then (status, msg ptr, msg size) at rp.
GuestEnvelope3(m, rp, o) ==
  GuestPut(GuestPut(GuestPut(GuestPut(m, o.ptr, o.bytes),
                             rp + 8, LeEncode(o.size)),
                    rp + 4, LeEncode(o.ptr)),
           rp, LeEncode(o.status))

\* ------------------------------------------------------- allocateString
Alloc_Call ==
  /\ Top = "alloc_call"
  /\ \/ /\ Logged(Entry("allocate", <<Len(str), 0>>, Trap, << >>))
        /\ Panic("alloc_call", "alloc trap", 0, Lit(""))
        /\ UNCHANGED <<allocRes>>
     \/ \E p \in AllocPtrs :
          /\ Logged(Entry("allocate", <<Len(str), 0>>, p, << >>))
          /\ allocRes' = p
          /\ Goto("alloc_write")
          /\ UNCHANGED err
  /\ UNCHANGED <<verb, guest, dbHandle, str, aptr, asize, newVars, res, ctx,
                 execVars, selVars, mainVars>>

\* A size that counts a terminating NUL, as a C string would.
StrSize_WithNul(s) == Len(s) + 1

\* main.go:222: the size returned is uint64(len(str))
StrSize(s) == Len(s)

Alloc_Write ==
  /\ Top = "alloc_write"
  /\ LET w == MemWrite(mem, Trunc32(allocRes), str) IN
     /\ Logged(Entry("write", <<Trunc32(allocRes), Len(str)>>,
                     IF w.ok THEN 1 ELSE 0, str))
     /\ IF w.ok
        THEN /\ mem' = w.mem
             /\ aptr' = allocRes /\ asize' = StrSize(str)
             /\ Return
             /\ UNCHANGED err
        ELSE /\ Panic("alloc_write", "failed to write name", 0, Lit(""))
             /\ UNCHANGED <<mem, aptr, asize>>
  /\ UNCHANGED <<verb, resultPtr, resultSize, nrows, dbHandle, str, allocRes,
                 newVars, res, ctx, execVars, selVars, mainVars>>

\* ------------------------------------------------------- ensureStatusCodeSuccess
\* A check that lets status 1 pass.
StatusFails_AboveOne(retCode) == retCode > 1

\* main.go:266: if retCode != 0
StatusFails(retCode) == retCode # 0

EnsureStatusCodeSuccess ==
  /\ Top = "ensure"
  /\ LET resultPpr == Trunc32(res)
         r == ReadUint32Le(mem, resultPpr) IN
     /\ Logged(Entry("readU32", <<resultPpr>>, IF r.ok THEN 1 ELSE 0,
                     IF r.ok THEN ReadBytes(mem, resultPpr, 4) ELSE << >>))
     /\ IF ~r.ok
        THEN Panic("ensure", "cannot read return code", 0, Lit(""))
        ELSE IF StatusFails(r.val)
        THEN Panic("ensure", "got error status", r.val, ctx)
        ELSE Return /\ UNCHANGED err
  /\ UNCHANGED <<verb, guest, dbHandle, allocVars, newVars, res, ctx, execVars,
                 selVars, mainVars>>

\* ------------------------------------------------------- newSqlModule
New_AllocDbName ==
  /\ Top = "main_new"
  /\ verb' = "open"
  /\ str' = DbName
  /\ pc' = <<"alloc_call", "new_allocFs", "main_create">>
  /\ UNCHANGED <<guest, dbHandle, allocRes, aptr, asize, newVars, res, ctx,
                 execVars, selVars, mainVars, err, log>>

New_AllocFsName ==
  /\ Top = "new_allocFs"
  /\ dbNamePtr' = aptr /\ dbNameSize' = asize
  /\ str' = EmptyStr
  /\ Call("alloc_call", "new_open")
  /\ UNCHANGED <<verb, guest, dbHandle, allocRes, aptr, asize, res, ctx,
                 execVars, selVars, mainVars, err, log>>

New_Open ==
  /\ Top = "new_open"
  /\ LET fsNamePTr == aptr
         fsNameSize == asize
         args == <<dbNamePtr, dbNameSize, OpenFlags, fsNamePTr, fsNameSize>> IN
     \/ /\ Logged(Entry("sqlite3_open_v2", args, Trap, << >>))
        /\ Panic("new_open", "open trap", 0, Lit(""))
        /\ UNCHANGED <<mem, resultPtr>>
     \/ \E o \in OpenOutcomes :
          /\ Logged(Entry("sqlite3_open_v2", args, 0, << >>))
          /\ mem' = GuestEnvelope2(mem, o.rp, o.status, o.handle)
          /\ resultPtr' = o.rp
          /\ Goto("new_getptr")
          /\ UNCHANGED err
  /\ UNCHANGED <<verb, resultSize, nrows, dbHandle, allocVars, newVars, res,
                 ctx, execVars, selVars, mainVars>>

New_GetResultPtr ==
  /\ Top = "new_getptr"
  /\ \/ /\ Logged(Entry("get_result_ptr", << >>, Trap, << >>))
        /\ Panic("new_getptr", "get_result_ptr trap", 0, Lit(""))
        /\ UNCHANGED <<res, ctx>>
     \/ /\ Logged(Entry("get_result_ptr", << >>, resultPtr, << >>))
        /\ res' = resultPtr
        /\ ctx' = Lit("db pointer")
        /\ Call("ensure", "new_readHandle")
        /\ UNCHANGED err
  /\ UNCHANGED <<verb, guest, dbHandle, allocVars, newVars, execVars, selVars,
                 mainVars>>

\* A handle looked for at the envelope's base.
HandleAddr_AtBase(r) == Trunc32(r)

\* main.go:116, 146: the handle is the u32 at uint32(res[0]+4)
HandleAddr(r) == Trunc32(Add64(r, 4))

New_ReadHandle ==
  /\ Top = "new_readHandle"
  /\ LET off == HandleAddr(res)
         r == ReadUint32Le(mem, off) IN
     /\ Logged(Entry("readU32", <<off>>, IF r.ok THEN 1 ELSE 0,
                     IF r.ok THEN ReadBytes(mem, off, 4) ELSE << >>))
     /\ IF r.ok
        THEN dbHandle' = r.val /\ Return /\ UNCHANGED err
        ELSE Panic("new_readHandle", "cannot take db pointer", 0, Lit(""))
             /\ UNCHANGED dbHandle
  /\ UNCHANGED <<verb, guest, allocVars, newVars, res, ctx, execVars, selVars,
                 mainVars>>

\* ------------------------------------------------------- execSql
Main_ExecCreate ==
  /\ Top = "main_create"
  /\ verb' = "execute"
  /\ str' = CreateSql
  /\ pc' = <<"alloc_call", "exec_call", "main_insert">>
  /\ UNCHANGED <<guest, dbHandle, allocRes, aptr, asize, newVars, res, ctx,
                 execVars, selVars, mainVars, err, log>>

Main_ExecInsert ==
  /\ Top = "main_insert"
  /\ verb' = "execute"
  /\ str' = InsertSql
  /\ pc' = <<"alloc_call", "exec_call", "main_select">>
  /\ UNCHANGED <<guest, dbHandle, allocRes, aptr, asize, newVars, res, ctx,
                 execVars, selVars, mainVars, err, log>>

Exec_Call ==
  /\ Top = "exec_call"
  /\ LET queryPtr == aptr
         querySize == asize
         args == <<dbHandle, queryPtr, querySize, 0, 0>> IN
     \/ /\ Logged(Entry("sqlite3_exec", args, Trap, << >>))
        /\ Panic("exec_call", "error execution query", 0, Lit(""))
        /\ UNCHANGED <<mem, resultPtr>>
     \/ \E rp \in ExecResPtrs, o \in ExecMsgs :
          /\ Logged(Entry("sqlite3_exec", args, 0, << >>))
          /\ mem' = GuestEnvelope3(mem, rp, o)
          /\ resultPtr' = rp
          /\ Goto("exec_getptr")
          /\ UNCHANGED err
  /\ UNCHANGED <<verb, resultSize, nrows, dbHandle, allocVars, newVars, res,
                 ctx, execVars, selVars, mainVars>>

Exec_GetResultPtr ==
  /\ Top = "exec_getptr"
  /\ \/ /\ Logged(Entry("get_result_ptr", << >>, Trap, << >>))
        /\ Panic("exec_getptr", "error getting result ptr", 0, Lit(""))
        /\ UNCHANGED res
     \/ /\ Logged(Entry("get_result_ptr", << >>, resultPtr, << >>))
        /\ res' = resultPtr
        /\ Goto("exec_readErrMsgPtr")
        /\ UNCHANGED err
  /\ UNCHANGED <<verb, guest, dbHandle, allocVars, newVars, ctx, execVars,
                 selVars, mainVars>>

Exec_ReadErrMsgPtr ==
  /\ Top = "exec_readErrMsgPtr"
  /\ LET off == Trunc32(Add64(res, 4))
         r == ReadUint32Le(mem, off) IN
     /\ Logged(Entry("readU32", <<off>>, IF r.ok THEN 1 ELSE 0,
                     IF r.ok THEN ReadBytes(mem, off, 4) ELSE << >>))
     /\ IF r.ok
        THEN errMsgPtr' = r.val /\ Goto("exec_readErrMsgSize") /\ UNCHANGED err
        ELSE Panic("exec_readErrMsgPtr", "cannot read err msg ptr", 0, Lit(""))
             /\ UNCHANGED errMsgPtr
  /\ UNCHANGED <<verb, guest, dbHandle, allocVars, newVars, res, ctx,
                 errMsgSize, errMsg, selVars, mainVars>>

Exec_ReadErrMsgSize ==
  /\ Top = "exec_readErrMsgSize"
  /\ LET off == Trunc32(Add64(res, 8))
         r == ReadUint32Le(mem, off) IN
     /\ Logged(Entry("readU32", <<off>>, IF r.ok THEN 1 ELSE 0,
                     IF r.ok THEN ReadBytes(mem, off, 4) ELSE << >>))
     /\ IF r.ok
        THEN errMsgSize' = r.val /\ Goto("exec_readErrMsg") /\ UNCHANGED err
        ELSE Panic("exec_readErrMsgSize", "cannot read err msg size", 0, Lit(""))
             /\ UNCHANGED errMsgSize
  /\ UNCHANGED <<verb, guest, dbHandle, allocVars, newVars, res, ctx,
                 errMsgPtr, errMsg, selVars, mainVars>>

\* A message read whatever its size.
ErrMsgWanted_Always(size) == TRUE

\* main.go:250: the message is read only when its size is not 0
ErrMsgWanted(size) == size # 0

Exec_ReadErrMsg ==
  /\ Top = "exec_readErrMsg"
  /\ IF ErrMsgWanted(errMsgSize)
     THEN LET r == MemRead(mem, errMsgPtr, errMsgSize) IN
          /\ Logged(Entry("read", <<errMsgPtr, errMsgSize>>,
                          IF r.ok THEN 1 ELSE 0, r.bytes))
          /\ IF r.ok
             THEN /\ errMsg' = r.bytes
                  /\ ctx' = Raw(r.bytes)
                  /\ Goto("ensure")
                  /\ UNCHANGED err
             ELSE /\ Panic("exec_readErrMsg", "cannot read err msg", 0, Lit(""))
                  /\ UNCHANGED <<errMsg, ctx>>
     ELSE /\ errMsg' = << >>
          /\ ctx' = Raw(<< >>)
          /\ Goto("ensure")
          /\ UNCHANGED <<err, log>>
  /\ UNCHANGED <<verb, guest, dbHandle, allocVars, newVars, res, errMsgPtr,
                 errMsgSize, selVars, mainVars>>

\* ------------------------------------------------------- execSelectUsers
Main_Select ==
  /\ Top = "main_select"
  /\ verb' = "query"
  /\ str' = SelectSql
  /\ users' = << >>
  /\ pc' = <<"alloc_call", "sel_prepare", "main_print">>
  /\ UNCHANGED <<guest, dbHandle, allocRes, aptr, asize, newVars, res, ctx,
                 execVars, stmt, rc, id, textPtr, textSize, mainVars, err, log>>

\* A prepare that passes the string pointer where the handle belongs.
PrepareArgs_NoHandle(h, queryPtr, querySize) == <<queryPtr, queryPtr, querySize>>

\* main.go:134: s.prepare.Call(ctx, s.dbHandle, queryPtr, querySize)
PrepareArgs(h, queryPtr, querySize) == <<h, queryPtr, querySize>>

Sel_Prepare ==
  /\ Top = "sel_prepare"
  /\ LET queryPtr == aptr
         querySize == asize
         args == PrepareArgs(dbHandle, queryPtr, querySize) IN
     \/ /\ Logged(Entry("sqlite3_prepare_v2", args, Trap, << >>))
        /\ Panic("sel_prepare", "failed to call prepare query", 0, Lit(""))
        /\ UNCHANGED <<mem, resultPtr, nrows>>
     \/ \E o \in PrepareOutcomes :
          /\ Logged(Entry("sqlite3_prepare_v2", args, 0, << >>))
          /\ mem' = GuestEnvelope2(mem, o.rp, o.status, o.handle)
          /\ resultPtr' = o.rp
          /\ nrows' = 0
          /\ Goto("sel_getptr")
          /\ UNCHANGED err
  /\ UNCHANGED <<verb, resultSize, dbHandle, allocVars, newVars, res, ctx,
                 execVars, selVars, mainVars>>

Sel_GetResultPtr ==
  /\ Top = "sel_getptr"
  /\ \/ /\ Logged(Entry("get_result_ptr", << >>, Trap, << >>))
        /\ Panic("sel_getptr", "error getting result ptr", 0, Lit(""))
        /\ UNCHANGED <<res, ctx>>
     \/ /\ Logged(Entry("get_result_ptr", << >>, resultPtr, << >>))
        /\ res' = resultPtr
        /\ ctx' = Lit("failed to prepare")
        /\ Call("ensure", "sel_readStmt")
        /\ UNCHANGED err
  /\ UNCHANGED <<verb, guest, dbHandle, allocVars, newVars, execVars, selVars,
                 mainVars>>

\* A check that accepts a zero statement handle.
StmtInvalid_ZeroAllowed(r) == ~r.ok

\* main.go:147: if !ok || stmt == 0
StmtInvalid(r) == ~r.ok \/ r.val = 0

Sel_ReadStmt ==
  /\ Top = "sel_readStmt"
  /\ LET off == HandleAddr(res)
         r == ReadUint32Le(mem, off) IN
     /\ Logged(Entry("readU32", <<off>>, IF r.ok THEN 1 ELSE 0,
                     IF r.ok THEN ReadBytes(mem, off, 4) ELSE << >>))
     /\ IF StmtInvalid(r)
        THEN Panic("sel_readStmt", "failed to read prepared statement", 0, Lit(""))
             /\ UNCHANGED stmt
        ELSE stmt' = r.val /\ Call("step", "sel_loop") /\ UNCHANGED err
  /\ UNCHANGED <<verb, guest, dbHandle, allocVars, newVars, res, ctx, execVars,
                 rc, id, textPtr, textSize, users, mainVars>>

ExecStep ==
  /\ Top = "step"
  /\ \/ /\ Logged(Entry("sqlite3_step", <<stmt>>, Trap, << >>))
        /\ Panic("step", "failed to call step", 0, Lit(""))
        /\ UNCHANGED <<rc, nrows>>
     \/ \E r \in StepRets :
          /\ Logged(Entry("sqlite3_step", <<stmt>>, r, << >>))
          /\ rc' = ToInt(r)
          /\ nrows' = IF r = SQLITE_ROW THEN nrows + 1 ELSE nrows
          /\ Return
          /\ UNCHANGED err
  /\ UNCHANGED <<verb, mem, resultPtr, resultSize, dbHandle, allocVars, newVars,
                 res, ctx, execVars, stmt, id, textPtr, textSize, users, mainVars>>

\* A loop that runs until the engine says DONE.
IsRow_UntilDone(code) == code # 101

\* main.go:153: the loop continues as long as the step code is ROW
IsRow(code) == code = SQLITE_ROW

Sel_Loop ==
  /\ Top = "sel_loop"
  /\ IF IsRow(rc)
     THEN /\ Goto("readInt")
          /\ UNCHANGED mainUsers
     ELSE /\ Return
          /\ mainUsers' = users
  /\ UNCHANGED <<verb, guest, dbHandle, allocVars, newVars, res, ctx, execVars,
                 selVars, out, err, log>>

ReadInt ==
  /\ Top = "readInt"
  /\ LET columnIndex == 0 IN
     \/ /\ Logged(Entry("sqlite3_column_int64", <<stmt, columnIndex>>, Trap, << >>))
        /\ Panic("readInt", "failed to read column as integer", 0, Lit(""))
        /\ UNCHANGED id
     \/ \E v \in IntVals :
          /\ Logged(Entry("sqlite3_column_int64", <<stmt, columnIndex>>, v, << >>))
          /\ id' = ToInt(v)
          /\ Goto("text_call")
          /\ UNCHANGED err
  /\ UNCHANGED <<verb, guest, dbHandle, allocVars, newVars, res, ctx, execVars,
                 stmt, rc, textPtr, textSize, users, mainVars>>

ReadText_CallThen(next) ==
  /\ Top = "text_call"
  /\ LET columnIndex == 1 IN
     \/ /\ Logged(Entry("sqlite3_column_text", <<stmt, columnIndex>>, Trap, << >>))
        /\ Panic("text_call", "failed to read column as text", 0, Lit(""))
        /\ UNCHANGED <<mem, resultPtr, resultSize>>
     \/ \E o \in TextOutcomes :
          /\ Logged(Entry("sqlite3_column_text", <<stmt, columnIndex>>, 0, << >>))
          /\ mem' = GuestPut(mem, o.ptr, o.bytes)
          /\ resultPtr' = o.ptr
          /\ resultSize' = o.size
          /\ Goto(next)
          /\ UNCHANGED err
  /\ UNCHANGED <<verb, nrows, dbHandle, allocVars, newVars, res, ctx, execVars,
                 selVars, mainVars>>

\* A readText that forgets get_result_ptr and uses the pointer it already holds.
ReadText_Call_StalePtr == ReadText_CallThen("text_getsize")

\* main.go:180-185: columnText.Call, then getResultPtr.Call
ReadText_Call == ReadText_CallThen("text_getptr")

ReadText_GetResultPtr ==
  /\ Top = "text_getptr"
  /\ \/ /\ Logged(Entry("get_result_ptr", << >>, Trap, << >>))
        /\ Panic("text_getptr", "failed to get column text ptr", 0, Lit(""))
        /\ UNCHANGED textPtr
     \/ /\ Logged(Entry("get_result_ptr", << >>, resultPtr, << >>))
        /\ textPtr' = resultPtr
        /\ Goto("text_getsize")
        /\ UNCHANGED err
  /\ UNCHANGED <<verb, guest, dbHandle, allocVars, newVars, res, ctx, execVars,
                 stmt, rc, id, textSize, users, mainVars>>

ReadText_GetResultSize ==
  /\ Top = "text_getsize"
  /\ \/ /\ Logged(Entry("get_result_size", << >>, Trap, << >>))
        /\ Panic("text_getsize", "failed to get column text size", 0, Lit(""))
        /\ UNCHANGED textSize
     \/ /\ Logged(Entry("get_result_size", << >>, resultSize, << >>))
        /\ textSize' = resultSize
        /\ Goto("text_read")
        /\ UNCHANGED err
  /\ UNCHANGED <<verb, guest, dbHandle, allocVars, newVars, res, ctx, execVars,
                 stmt, rc, id, textPtr, users, mainVars>>

\* Rows put in reverse order.
AppendUser_Prepend(us, u) == <<u>> \o us

\* A slice that is assigned the new row instead of growing by it.
AppendUser_KeepLast(us, u) == <<u>>

\* main.go:159: users = append(users, &user{id: id, name: name})
AppendUser(us, u) == Append(us, u)

\* A row that is also printed as soon as it is read.
RowAppended_Printing(u) ==
  /\ users' = AppendUser(users, u)
  /\ out' = Append(out, u)
  /\ UNCHANGED mainUsers

\* main.go:159: the row goes to the local slice only; main sees nothing yet
RowAppended(u) ==
  /\ users' = AppendUser(users, u)
  /\ UNCHANGED mainVars

\* A read whose ok result is dropped.
TextReadFailed_Ignored(r) == FALSE

\* main.go:197: if !ok
TextReadFailed(r) == ~r.ok

ReadText_Read ==
  /\ Top = "text_read"
  /\ LET ptr == Trunc32(textPtr)
         size == Trunc32(textSize)
         r == MemRead(mem, ptr, size) IN
     /\ Logged(Entry("read", <<ptr, size>>, IF r.ok THEN 1 ELSE 0, r.bytes))
     /\ IF TextReadFailed(r)
        THEN /\ Panic("text_read", "failed to read text", 0, Lit(""))
             /\ UNCHANGED <<users, mainVars>>
        ELSE /\ RowAppended([id |-> id, name |-> r.bytes])
             /\ Call("step", "sel_loop")
             /\ UNCHANGED err
  /\ UNCHANGED <<verb, guest, dbHandle, allocVars, newVars, res, ctx, execVars,
                 stmt, rc, id, textPtr, textSize>>

\* ------------------------------------------------------- main's print loop
Main_Print ==
  /\ Top = "main_print"
  /\ Len(out) < Len(mainUsers)
  /\ out' = Append(out, mainUsers[Len(out) + 1])
  /\ UNCHANGED <<pc, verb, guest, dbHandle, allocVars, newVars, res, ctx,
                 execVars, selVars, mainUsers, err, log>>

Main_Done ==
  /\ Top = "main_print"
  /\ Len(out) = Len(mainUsers)
  /\ Goto("done")
  /\ UNCHANGED <<verb, guest, dbHandle, allocVars, newVars, res, ctx,
                 execVars, selVars, mainVars, err, log>>

Next ==
  \/ New_AllocDbName \/ New_AllocFsName \/ New_Open \/ New_GetResultPtr
  \/ New_ReadHandle
  \/ Alloc_Call \/ Alloc_Write
  \/ EnsureStatusCodeSuccess
  \/ Main_ExecCreate \/ Main_ExecInsert
  \/ Exec_Call \/ Exec_GetResultPtr \/ Exec_ReadErrMsgPtr \/ Exec_ReadErrMsgSize
  \/ Exec_ReadErrMsg
  \/ Main_Select \/ Sel_Prepare \/ Sel_GetResultPtr \/ Sel_ReadStmt
  \/ ExecStep \/ Sel_Loop \/ ReadInt
  \/ ReadText_Call \/ ReadText_GetResultPtr \/ ReadText_GetResultSize
  \/ ReadText_Read
  \/ Main_Print \/ Main_Done

Spec == Init /\ [][Next]_vars

\* The program is one sequential process that keeps running until it ends
\* or panics: a step that can be taken is taken.
FairSpec == Spec /\ WF_vars(Next)

\* ======================================================= properties
EnvelopeOps == {"sqlite3_open_v2", "sqlite3_exec", "sqlite3_prepare_v2",
                "sqlite3_column_text"}
AccessorOps == {"get_result_ptr", "get_result_size"}
ReadOps == {"readU32", "read"}
MemOps == ReadOps \cup {"write"}
IsCall(e) == e.op \notin MemOps
Finished == Top = "done"
Panicked == Top = "panic"

\* The index of the last exported call before log entry j (0 if none).
RECURSIVE PrevCall(_)
PrevCall(j) ==
  IF j <= 1 THEN 0
  ELSE IF IsCall(log[j - 1]) THEN j - 1 ELSE PrevCall(j - 1)

ReadsBetween(p, j) == {l \in (p + 1)..(j - 1) : log[l].op \in ReadOps}

\* ------------------------------------------------------- C1
\* The accessor calls follow the envelope-producing call at i at once.
AccessorsFollow(i) ==
  (log[i].op \in EnvelopeOps /\ log[i].ret # Trap /\ i < Len(log)) =>
     /\ log[i + 1].op = "get_result_ptr"
     /\ (log[i].op = "sqlite3_column_text" /\ log[i + 1].ret # Trap
         /\ i + 1 < Len(log)) => log[i + 2].op = "get_result_size"

\* The guest-memory read at j interprets the envelope of the most recent
\* envelope-producing call: only accessor calls and reads lie between them,
\* and the address read derives from what the accessors returned.
ReadBelongs(j) ==
  LET k == PrevCall(j) IN
  /\ k > 1
  /\ \A l \in (k + 1)..(j - 1) : log[l].op \in ReadOps
  /\ \/ /\ log[k].op = "get_result_ptr"
        /\ log[k - 1].op \in EnvelopeOps \ {"sqlite3_column_text"}
        /\ \/ /\ log[j].op = "readU32"
              /\ log[j].args[1] \in {Trunc32(log[k].ret),
                                     Trunc32(Add64(log[k].ret, 4)),
                                     Trunc32(Add64(log[k].ret, 8))}
           \/ /\ log[j].op = "read"
              /\ log[k - 1].op = "sqlite3_exec"
              /\ j = k + 3
              /\ log[j].args = <<LeDecode(log[k + 1].data),
                                 LeDecode(log[k + 2].data)>>
     \/ /\ log[k].op = "get_result_size"
        /\ k > 2
        /\ log[k - 1].op = "get_result_ptr"
        /\ log[k - 2].op = "sqlite3_column_text"
        /\ log[j].op = "read"
        /\ log[j].args = <<Trunc32(log[k - 1].ret), Trunc32(log[k].ret)>>

\* How many reads interpret the envelope fetched by the accessor call at p.
ReadsNeeded(p) ==
  IF log[p].op = "get_result_size" THEN 1
  ELSE IF log[p - 1].op = "sqlite3_exec"
       THEN IF LeDecode(log[p + 2].data) # 0 THEN 4 ELSE 3
       ELSE 2

\* Before the exported call at j, which is not an accessor, the envelope of
\* the call before it has been read completely.
Consumed(j) ==
  LET p == PrevCall(j) IN
  (IsCall(log[j]) /\ log[j].op \notin AccessorOps /\ p > 1
   /\ log[p].op \in AccessorOps) =>
     Cardinality(ReadsBetween(p, j)) = ReadsNeeded(p)

\* C1: after each envelope-producing export call the client calls the
\* accessor(s) at once and finishes every guest-memory read that interprets
\* the envelope before it issues any other exported call; every read the
\* client makes belongs to the most recent envelope-producing call.
C1_EnvelopeDiscipline ==
  \A i \in 1..Len(log) :
    /\ AccessorsFollow(i)
    /\ log[i].op \in ReadOps => ReadBelongs(i)
    /\ log[i].op \in AccessorOps =>
         i > 1 /\ (log[i - 1].op \in EnvelopeOps
                   \/ (log[i].op = "get_result_size"
                       /\ log[i - 1].op = "get_result_ptr"))
    /\ Consumed(i)

\* The whole program ran: open, two execs, a prepare and at least one text
\* column went through the envelope, each followed by further exported calls.
C1_Witness ==
  /\ Finished
  /\ Len(mainUsers) >= 2
  /\ \E i \in 1..Len(log) : log[i].op = "read" /\ log[i].args[2] > 0

\* ------------------------------------------------------- C2
\* The indices, in order, of the step calls in log[1..n] that returned ROW.
RECURSIVE RowSteps(_)
RowSteps(n) ==
  IF n = 0 THEN << >>
  ELSE IF log[n].op = "sqlite3_step" /\ log[n].ret = SQLITE_ROW
       THEN Append(RowSteps(n - 1), n)
       ELSE RowSteps(n - 1)

QueryReturned == Top \in {"main_print", "done"}

\* The row read while the cursor stood on the row of the step call at s:
\* column_int64(stmt, 0) at s+1, column_text(stmt, 1) at s+2, the two
\* accessors, and the text read at s+5.
RowAt(s) == [id |-> ToInt(log[s + 1].ret), name |-> log[s + 5].data]

\* C2: when a query returns normally, the returned sequence has exactly one
\* row per step call that returned 100, in the order of those steps, and row i
\* is (integer read from column 0, text read from column 1) taken while the
\* cursor was on row i; main prints those rows, one line each, in that order.
C2_RowOrderAndContent ==
  LET S == RowSteps(Len(log)) IN
  /\ QueryReturned =>
       /\ Len(mainUsers) = Len(S)
       /\ \A i \in 1..Len(S) :
            /\ S[i] + 5 <= Len(log)
            /\ log[S[i] + 1].op = "sqlite3_column_int64"
            /\ log[S[i] + 1].args = <<stmt, 0>>
            /\ log[S[i] + 2].op = "sqlite3_column_text"
            /\ log[S[i] + 2].args = <<stmt, 1>>
            /\ log[S[i] + 5].op = "read" /\ log[S[i] + 5].ret = 1
            /\ mainUsers[i] = RowAt(S[i])
       /\ Len(out) <= Len(mainUsers)
       /\ \A i \in 1..Len(out) : out[i] = mainUsers[i]
  /\ Finished => out = mainUsers

\* Three rows with ids 0, 1, 2 and three different names came back and were
\* printed in that order (the README's run).
C2_Witness ==
  /\ Finished
  /\ Len(out) = 3
  /\ \A i \in 1..3 : out[i] = [id |-> i - 1, name |-> TextOf(i - 1)]
  /\ TextOf(0) # TextOf(1) /\ TextOf(1) # TextOf(2) /\ TextOf(0) # TextOf(2)

\* ------------------------------------------------------- C3
RowOps == {"sqlite3_step", "sqlite3_column_int64", "sqlite3_column_text",
           "sqlite3_finalize"}

\* C3: the client keeps stepping while the step code is 100; the first step
\* code other than 100, whatever it is, ends the query normally with the rows
\* collected so far and no error, and no step, column-read or finalize call
\* follows it.
C3_StepLoopStops ==
  /\ \A i \in 1..Len(log) :
       log[i].op = "sqlite3_step" =>
         /\ (log[i].ret # SQLITE_ROW /\ log[i].ret # Trap) =>
              /\ \A j \in (i + 1)..Len(log) : log[j].op \notin RowOps
              /\ ~Panicked
              /\ Top \in {"sel_loop", "main_print", "done"}
              /\ QueryReturned => mainUsers = users
         /\ (log[i].ret = SQLITE_ROW /\ i < Len(log)) =>
              log[i + 1].op = "sqlite3_column_int64"
  /\ QueryReturned =>
       /\ log[Len(log)].op = "sqlite3_step"
       /\ log[Len(log)].ret \notin {SQLITE_ROW, Trap}

\* A query that read two rows ended normally on an engine error code.
C3_Witness ==
  /\ QueryReturned
  /\ log[Len(log)].op = "sqlite3_step" /\ log[Len(log)].ret = 1
  /\ Len(mainUsers) = 2

\* ------------------------------------------------------- C4
\* The status word of the envelope the client last fetched.
StatusWord == ReadUint32Le(mem, Trunc32(res))

\* Labels at which ensureStatusCodeSuccess has just returned, or the verb it
\* ended has (memory and res are as the check saw them).
AfterEnsure ==
  \/ Top \in {"new_readHandle", "sel_readStmt"}
  \/ Top = "main_create"
  \/ verb = "execute" /\ Top \in {"main_insert", "main_select"}

\* The context each caller passes to ensureStatusCodeSuccess.
ContextOf(v) ==
  IF v = "open" THEN Lit("db pointer")
  ELSE IF v = "query" THEN Lit("failed to prepare")
  ELSE Raw(errMsg)

C4_State ==
  /\ err.at = "ensure" =>
       \/ /\ ~StatusWord.ok
          /\ err.msg = "cannot read return code"
       \/ /\ StatusWord.ok /\ StatusWord.val # 0
          /\ err.msg = "got error status"
          /\ err.code = StatusWord.val
          /\ err.detail = ContextOf(verb)
  /\ AfterEnsure => StatusWord.ok /\ StatusWord.val = 0
  /\ (Panicked /\ err.at \in {"new_readHandle", "sel_readStmt"}) =>
       StatusWord.ok /\ StatusWord.val = 0

C4_Frame ==
  (Top = "ensure" /\ pc' # pc /\ Head(pc') # "panic") =>
     /\ pc' = Tail(pc)
     /\ UNCHANGED <<verb, mem, resultPtr, resultSize, nrows, dbHandle, str,
                    allocRes, aptr, asize, dbNamePtr, dbNameSize, res, ctx,
                    errMsgPtr, errMsgSize, errMsg, stmt, rc, id, textPtr,
                    textSize, users, mainUsers, out, err>>

\* C4 (amended): ensureStatusCodeSuccess fails if and only if the status
\* word at offset 0 of the envelope cannot be read or is non-zero, and it
\* changes no program state when it succeeds; open, execute and prepare
\* therefore never complete with a non-zero status, and the failure raised by
\* the status check carries the status code and the caller's context.
C4_StatusCheck == []C4_State /\ [][C4_Frame]_vars

\* open's status check failed on status 1, and so did execute's with the
\* engine's error text as context.
C4_Witness ==
  /\ err.at = "ensure" /\ verb = "execute"
  /\ err.msg = "got error status" /\ err.code = 1
  /\ err.detail = Raw(<<3, 1>>)

\* C4 as stated: ensureStatusCodeSuccess fails if and only if the status
\* code at offset 0 of the envelope is non-zero.
C4_Original ==
  /\ err.at = "ensure" => StatusWord.val # 0
  /\ AfterEnsure => StatusWord.val = 0

\* ------------------------------------------------------- C5
Last == log[Len(log)]

\* allocateString has just returned: its write is the newest log entry, and
\* no call into the module has been made since.
AllocReturned == Len(log) > 0 /\ Last.op = "write" /\ Last.ret = 1

\* C5: if allocateString(s) returns (pointer, length), then length = len(s)
\* and reading length bytes at pointer, before any further call into the
\* module, gives exactly s.
C5_WriteReadRoundTrip ==
  AllocReturned =>
    /\ asize = Len(Last.data)
    /\ MemRead(mem, Trunc32(aptr), Trunc32(asize)) =
         [ok |-> TRUE, bytes |-> Last.data]

\* The four-byte INSERT statement and the empty string were both written.
C5_Witness ==
  /\ AllocReturned
  /\ Last.data = InsertSql
  /\ \E i \in 1..Len(log) :
       log[i].op = "write" /\ log[i].ret = 1 /\ log[i].data = << >>

\* ------------------------------------------------------- C6
\* The message range the envelope names: pointer at res+4, length at res+8.
EnvMsgPtr == ReadUint32Le(mem, Trunc32(Add64(res, 4)))
EnvMsgSize == ReadUint32Le(mem, Trunc32(Add64(res, 8)))

ExecStatusFailure ==
  verb = "execute" /\ err.at = "ensure" /\ err.msg = "got error status"

\* C6: when exec ends with a non-zero status, the message reported is
\* exactly the bytes of the range (pointer, length) in the envelope when the
\* length is not 0 and the empty string when it is 0; the client reads no
\* guest memory for the message when the length is 0.
C6_NoMessageFabrication ==
  /\ ExecStatusFailure =>
       /\ EnvMsgPtr.ok /\ EnvMsgSize.ok
       /\ err.detail.lit = ""
       /\ IF EnvMsgSize.val # 0
          THEN err.detail.raw = ReadBytes(mem, EnvMsgPtr.val, EnvMsgSize.val)
          ELSE err.detail.raw = << >>
  /\ \A i \in 1..Len(log) :
       (log[i].op = "sqlite3_exec" /\ i + 3 <= Len(log)
        /\ log[i + 3].op = "readU32" /\ log[i + 3].ret = 1) =>
          IF LeDecode(log[i + 3].data) = 0
          THEN i + 4 <= Len(log) => log[i + 4].op # "read"
          ELSE i + 4 <= Len(log) =>
                 /\ log[i + 4].op = "read"
                 /\ log[i + 4].args = <<LeDecode(log[i + 2].data),
                                        LeDecode(log[i + 3].data)>>

\* exec failed with the engine's two-byte message.
C6_Witness ==
  /\ ExecStatusFailure
  /\ EnvMsgSize.val = 2
  /\ err.detail.raw = <<3, 1>>

\* exec failed with no message, the message pointer being outside memory.
C6_WitnessEmpty ==
  /\ ExecStatusFailure
  /\ EnvMsgSize.val = 0 /\ EnvMsgPtr.val > MemSize
  /\ err.detail.raw = << >>

\* ------------------------------------------------------- C7
ExecStepsAt == {"exec_readErrMsgPtr", "exec_readErrMsgSize", "exec_readErrMsg",
                "ensure"}

\* C7: an execute call in which no export traps and whose envelope (all
\* three words in memory) has status 0 returns normally, whatever the
\* message pointer and length fields hold.
C7_SucceedsOnZeroStatus ==
  (verb = "execute" /\ err.at \in ExecStepsAt
   /\ StatusWord.ok /\ EnvMsgPtr.ok /\ EnvMsgSize.ok /\ StatusWord.val = 0)
     => ~Panicked

\* ------------------------------------------------------- C8
\* C8: no partial success.  A verb that fails hands nothing to its caller:
\* if a query fails, even after rows were materialized, main receives no
\* rows and prints nothing; lines are printed only after the whole query has
\* returned; a failed open stores no handle.
C8_NoPartialSuccess ==
  /\ Panicked => mainUsers = << >> /\ out = << >>
  /\ ~QueryReturned => mainUsers = << >> /\ out = << >>
  /\ out # << >> => QueryReturned /\ err = NoErr
  /\ (Panicked /\ verb = "open") => dbHandle = 0

\* A query failed after two rows had been read.
C8_Witness ==
  /\ Panicked /\ verb = "query"
  /\ err.at \in {"step", "readInt", "text_call", "text_read"}
  /\ Len(users) = 2

\* ------------------------------------------------------- C9
ReadLen(e) == IF e.op = "readU32" THEN 4 ELSE e.args[2]
ReadPanics == {"cannot read return code", "cannot take db pointer",
               "cannot read err msg ptr", "cannot read err msg size",
               "cannot read err msg", "failed to read prepared statement",
               "failed to read text"}

\* C9: a guest-memory read whose range extends past the memory size fails:
\* it yields no bytes and ends the run with that read's error; a read that
\* succeeds lies inside memory and yields all the bytes asked for.
C9_OutOfBoundsReadsFail ==
  \A i \in 1..Len(log) :
    log[i].op \in ReadOps =>
      IF log[i].args[1] + ReadLen(log[i]) > MemSize
      THEN /\ log[i].ret = 0 /\ log[i].data = << >>
           /\ i = Len(log)
           /\ Panicked /\ err.msg \in ReadPanics
      ELSE /\ log[i].ret = 1
           /\ Len(log[i].data) = ReadLen(log[i])

\* A text column whose range starts inside memory and ends outside it.
C9_Witness ==
  /\ Panicked /\ err.at = "text_read"
  /\ Last.op = "read" /\ Last.args[1] < MemSize
  /\ Last.args[1] + Last.args[2] > MemSize
  /\ Len(users) >= 1

\* ------------------------------------------------------- C10
ColumnOps == {"sqlite3_column_int64", "sqlite3_column_text"}

\* The index of the first step call in the log (0 if none).
FirstStep ==
  IF \E i \in 1..Len(log) : log[i].op = "sqlite3_step"
  THEN CHOOSE i \in 1..Len(log) :
         /\ log[i].op = "sqlite3_step"
         /\ \A j \in 1..(i - 1) : log[j].op # "sqlite3_step"
  ELSE 0

\* C10: when the first step of a query returns a code other than 100, the
\* query returns an empty sequence and no error, and no integer-column or
\* text-column call is made for the statement.
C10_EmptyResult ==
  (FirstStep > 0 /\ log[FirstStep].ret \notin {SQLITE_ROW, Trap}) =>
     /\ ~Panicked
     /\ users = << >>
     /\ QueryReturned => mainUsers = << >> /\ out = << >>
     /\ \A i \in 1..Len(log) : log[i].op \notin ColumnOps
     /\ FirstStep = Len(log)

\* The program finished with no rows after a first step code of 101.
C10_Witness ==
  /\ Finished
  /\ FirstStep > 0 /\ log[FirstStep].ret = 101
  /\ mainUsers = << >>


\* ------------------------------------------------------- C11
HandleOps == {"sqlite3_open_v2", "sqlite3_prepare_v2"}

\* The exported call at i returned and so did the get_result_ptr after it.
EnvelopeFetched(i) ==
  /\ i + 1 <= Len(log)
  /\ log[i].ret # Trap
  /\ log[i + 1].op = "get_result_ptr"
  /\ log[i + 1].ret # Trap

\* The envelope's base address as the client uses it after the call at i.
BaseOf(i) == log[i + 1].ret

\* The handle read that follows the open or prepare call at i: the status
\* word is read at i+2, the handle at i+3.
HandleReadAt(i) ==
  (log[i].op \in HandleOps /\ EnvelopeFetched(i) /\ i + 3 <= Len(log)) =>
     /\ log[i + 3].op = "readU32"
     /\ log[i + 3].args = <<Trunc32(Add64(BaseOf(i), 4))>>
     /\ log[i + 3].ret = 1 =>
          /\ Len(log[i + 3].data) = 4
          /\ log[i].op = "sqlite3_open_v2" =>
               dbHandle = LeDecode(log[i + 3].data)
          /\ (log[i].op = "sqlite3_prepare_v2"
              /\ LeDecode(log[i + 3].data) # 0) =>
               stmt = LeDecode(log[i + 3].data)

\* The message reads that follow the exec call at i: the pointer word at
\* i+2, the size word at i+3, the message itself at i+4 when its size is
\* not 0.
MessageReadAt(i) ==
  (log[i].op = "sqlite3_exec" /\ EnvelopeFetched(i)) =>
     /\ i + 2 <= Len(log) =>
          /\ log[i + 2].op = "readU32"
          /\ log[i + 2].args = <<Trunc32(Add64(BaseOf(i), 4))>>
     /\ (i + 3 <= Len(log)) =>
          /\ log[i + 3].op = "readU32"
          /\ log[i + 3].args = <<Trunc32(Add64(BaseOf(i), 8))>>
     /\ (i + 4 <= Len(log) /\ LeDecode(log[i + 3].data) # 0) =>
          /\ log[i + 4].op = "read"
          /\ log[i + 4].args = <<LeDecode(log[i + 2].data),
                                 LeDecode(log[i + 3].data)>>

\* C11 (amended): open obtains the database handle by reading the 4-byte
\* little-endian value at envelope base + 4, that is, the auxiliary-pointer
\* field itself, with no further indirection; prepare reads the statement
\* handle at the same place of its envelope; execute reads the error-message
\* pointer at envelope base + 4 and its length at envelope base + 8, and the
\* message bytes at that (pointer, length).  All sums are taken in 64 bits
\* and cut to 32.
C11_HandleAndMessageOffsets ==
  \A i \in 1..Len(log) : HandleReadAt(i) /\ MessageReadAt(i)

\* The program ran to its end: the database handle and a non-zero statement
\* handle were read from their envelopes, and an exec call left a message of
\* non-zero length that the client read.
C11_Witness ==
  /\ Finished
  /\ dbHandle = 5
  /\ stmt = 9
  /\ \E i \in 1..(Len(log) - 4) :
        /\ log[i].op = "sqlite3_exec"
        /\ log[i + 4].op = "read"
        /\ log[i + 4].args[2] # 0
        /\ log[i + 4].ret = 1

\* The auxiliary-pointer field of the envelope just fetched.
AuxPointer == ReadUint32Le(mem, Trunc32(Add64(res, 4)))

\* C11 as stated: the handle is read at auxPointer + 4, and the message
\* pointer at auxPointer + 4, where auxPointer is the u32 at envelope
\* base + 4.
C11_Original ==
  (/\ Len(log) >= 3
   /\ Last.op = "readU32"
   /\ AuxPointer.ok
   /\ \/ /\ Len(log) >= 4
         /\ log[Len(log) - 3].op \in HandleOps
         /\ log[Len(log) - 2].op = "get_result_ptr"
      \/ /\ log[Len(log) - 2].op = "sqlite3_exec"
         /\ log[Len(log) - 1].op = "get_result_ptr")
    => Last.args = <<Trunc32(AuxPointer.val + 4)>>


\* ------------------------------------------------------- C12
OpenCalls == {i \in 1..Len(log) : log[i].op = "sqlite3_open_v2"}
HandleUsers == {"sqlite3_exec", "sqlite3_prepare_v2"}

\* The handle read after the open call at i succeeded.
HandleStored(i) ==
  /\ EnvelopeFetched(i)
  /\ i + 3 <= Len(log)
  /\ log[i + 3].op = "readU32"
  /\ log[i + 3].ret = 1

\* The exec or prepare call at j comes after the one open call and the read
\* of its handle, and passes that handle first.
PassesOpenHandle(j) ==
  log[j].op \in HandleUsers =>
    \E i \in OpenCalls :
      /\ HandleStored(i)
      /\ i + 3 < j
      /\ log[j].args[1] = LeDecode(log[i + 3].data)
      /\ log[j].args[1] = dbHandle

C12_State ==
  /\ Cardinality(OpenCalls) <= 1
  /\ verb \in {"execute", "query"} => Cardinality(OpenCalls) = 1
  /\ \A j \in 1..Len(log) : PassesOpenHandle(j)

\* The stored handle changes only in the step that reads it from open's
\* envelope, which happens before any exec or prepare call.
C12_Frame ==
  dbHandle' # dbHandle =>
    /\ verb \notin {"execute", "query"}
    /\ \A j \in 1..Len(log) : log[j].op \notin HandleUsers
    /\ \E i \in OpenCalls : Len(log) = i + 2 /\ Len(log') = i + 3
    /\ dbHandle' = LeDecode(log'[Len(log')].data)

\* C12: the open export is called exactly once, before any exec or prepare
\* call; the handle read from that call's envelope is stored once and not
\* changed by execute or query; every exec and prepare call passes exactly
\* that handle as its first argument.
C12_HandleObtainedOnce == []C12_State /\ [][C12_Frame]_vars

\* The program ran to its end: one open, then two exec calls and a prepare
\* call, each given the handle 5 read from open's envelope.
C12_Witness ==
  /\ Finished
  /\ dbHandle = 5
  /\ Cardinality({j \in 1..Len(log) : log[j].op = "sqlite3_exec"}) = 2
  /\ \E j \in 1..Len(log) :
        log[j].op = "sqlite3_prepare_v2" /\ log[j].args[1] = 5


\* ------------------------------------------------------- C13
\* The read at j is the status check of the envelope most recently fetched.
IsStatusRead(j) ==
  LET k == PrevCall(j) IN
  /\ log[j].op = "readU32"
  /\ k > 0
  /\ log[k].op = "get_result_ptr"
  /\ log[j].args = <<Trunc32(log[k].ret)>>

\* The log entry at j records a failure: an exported call that trapped, a
\* guest-memory write or read out of bounds, or a status word that is not 0.
FailureAt(j) ==
  \/ IsCall(log[j]) /\ log[j].ret = Trap
  \/ log[j].op \in MemOps /\ log[j].ret = 0
  \/ IsStatusRead(j) /\ log[j].ret = 1 /\ LeDecode(log[j].data) # 0

C13_State ==
  /\ \A j \in 1..Len(log) : FailureAt(j) => (j = Len(log) /\ Panicked)
  /\ Panicked => (Len(log) > 0 /\ err # NoErr)

\* C13: once an exported call has trapped, a guest-memory write or read has
\* failed, or a status word was not 0, the client issues no further exported
\* call (nor any other step): the failure is the last event of the run, so
\* no call is repeated in response to it.
C13_NoRetryNoRecovery == []C13_State /\ [][~Panicked]_vars

\* A run that failed after it had made progress: the exec export trapped,
\* or left a non-zero status, once the database had been opened.
C13_Witness ==
  /\ Panicked
  /\ dbHandle = 5
  /\ \E j \in 1..Len(log) : log[j].op = "sqlite3_exec"
  /\ FailureAt(Len(log))

\* A run that failed on a non-zero status word.
C13_WitnessStatus ==
  /\ Panicked
  /\ IsStatusRead(Len(log))
  /\ Last.ret = 1
  /\ LeDecode(Last.data) # 0


\* ------------------------------------------------------- C14
\* The number of step calls so far that produced a row.
RowStepCount == Len(RowSteps(Len(log)))

\* The rows delivered so far to the consumer, main's range loop.
Delivered == Len(out)

C14_State ==
  /\ ~QueryReturned => (out = << >> /\ mainUsers = << >>)
  /\ QueryReturned =>
       /\ RowStepCount = Len(mainUsers)
       /\ Last.op = "sqlite3_step"
       /\ Last.ret # SQLITE_ROW
       /\ Delivered <= Len(mainUsers)
       /\ out = SubSeq(mainUsers, 1, Delivered)

\* Once the query has returned, in particular whenever a row is delivered,
\* no exported call is made and the slice of rows stays as it is.
C14_Frame ==
  (QueryReturned \/ out' # out) => (log' = log /\ mainUsers' = mainUsers)

\* C14 (amended): query produces its rows eagerly: every step call,
\* including the one that returns a code other than 100, is issued before
\* the query returns and so before the first row is delivered to the
\* consumer; the number of row-producing steps equals the number of rows
\* returned, however many of them the consumer goes on to read; and reading
\* the returned rows, once or again, issues no exported call.
C14_EagerRows == []C14_State /\ [][C14_Frame]_vars

\* Three rows were stepped through before the first one was delivered.
C14_Witness ==
  /\ Top = "main_print"
  /\ Delivered = 1
  /\ Len(mainUsers) = 3
  /\ RowStepCount = 3

\* C14 as stated: the step that advances the cursor to row i+1 is not issued
\* until row i has been delivered, so at any moment the row-producing steps
\* are at most one ahead of the rows delivered.
C14_Original == RowStepCount <= Delivered + 1


\* ------------------------------------------------------- C15
StmtUsers == {"sqlite3_step", "sqlite3_column_int64", "sqlite3_column_text"}

\* The envelope of the call at i was fetched, its status word was read and
\* found 0, and its handle word was read: entries i+1, i+2, i+3.
Verified(i) ==
  /\ HandleStored(i)
  /\ log[i + 2].op = "readU32"
  /\ log[i + 2].args = <<Trunc32(BaseOf(i))>>
  /\ log[i + 2].ret = 1
  /\ LeDecode(log[i + 2].data) = 0

\* The step or column call at j is given a non-zero statement handle read
\* from the verified envelope of an earlier prepare call.
UsesVerifiedStmt(j) ==
  log[j].op \in StmtUsers =>
    \E i \in 1..(j - 4) :
      /\ log[i].op = "sqlite3_prepare_v2"
      /\ Verified(i)
      /\ log[j].args[1] = LeDecode(log[i + 3].data)
      /\ log[j].args[1] # 0

\* The exec or prepare call at j comes after open's verified envelope.
UsesVerifiedDb(j) ==
  log[j].op \in HandleUsers =>
    \E i \in 1..(j - 4) :
      /\ log[i].op = "sqlite3_open_v2"
      /\ Verified(i)

\* A prepare call whose envelope held a zero handle under a zero status is
\* followed by no exported call at all.
ZeroStmtFails(i) ==
  (log[i].op = "sqlite3_prepare_v2" /\ Verified(i)
   /\ LeDecode(log[i + 3].data) = 0) =>
     (Len(log) = i + 3 /\ Panicked)

\* C15: a step or column-read call is issued only with a statement handle
\* that was read from the envelope of a prepare call whose status word was
\* read as 0, and that handle is not 0 (a zero handle makes the query fail
\* before any step); an exec or prepare call is issued only after open's
\* status word was read as 0 and the database handle was read.
C15_OnlyVerifiedHandles ==
  \A j \in 1..Len(log) :
    UsesVerifiedStmt(j) /\ UsesVerifiedDb(j) /\ ZeroStmtFails(j)

\* A row was read with the statement handle 9 taken from prepare's envelope.
C15_Witness ==
  /\ stmt = 9
  /\ \E j \in 1..Len(log) :
        log[j].op = "sqlite3_column_text" /\ log[j].args[1] = 9
  /\ \E j \in 1..Len(log) :
        log[j].op = "sqlite3_step" /\ log[j].ret = SQLITE_ROW

\* A prepare call reported status 0 with a zero handle and the query failed.
C15_WitnessZero ==
  /\ Panicked
  /\ err.msg = "failed to read prepared statement"
  /\ Last.ret = 1
  /\ LeDecode(Last.data) = 0


\* ------------------------------------------------------- C16
IsRowStep(s) == log[s].op = "sqlite3_step" /\ log[s].ret = SQLITE_ROW

\* Entry j exists and the entry before it did not fail.
Reached(j) ==
  /\ j <= Len(log)
  /\ IF IsCall(log[j - 1]) THEN log[j - 1].ret # Trap ELSE log[j - 1].ret = 1

\* The six entries that follow the row-producing step at s.
RowProtocol(s) ==
  LET h == log[s].args[1] IN
  IsRowStep(s) =>
    /\ Reached(s + 1) =>
         /\ log[s + 1].op = "sqlite3_column_int64"
         /\ log[s + 1].args = <<h, 0>>
    /\ Reached(s + 2) =>
         /\ log[s + 2].op = "sqlite3_column_text"
         /\ log[s + 2].args = <<h, 1>>
    /\ Reached(s + 3) => log[s + 3].op = "get_result_ptr"
    /\ Reached(s + 4) => log[s + 4].op = "get_result_size"
    /\ Reached(s + 5) =>
         /\ log[s + 5].op = "read"
         /\ log[s + 5].args = <<Trunc32(log[s + 3].ret), Trunc32(log[s + 4].ret)>>
    /\ Reached(s + 6) =>
         /\ log[s + 6].op = "sqlite3_step"
         /\ log[s + 6].args = <<h>>
    /\ \A j \in (s + 1)..(s + 6) :
         (j <= Len(log) /\ j # s + 1) => Reached(j)

\* A column call sits only at its place after a row-producing step.
ColumnInPlace(j) ==
  /\ log[j].op = "sqlite3_column_int64" => (j > 1 /\ IsRowStep(j - 1))
  /\ log[j].op = "sqlite3_column_text" =>
       (j > 2 /\ IsRowStep(j - 2) /\ log[j - 1].op = "sqlite3_column_int64")

\* The id of each collected row is the integer column's return value.
IdsDirect ==
  LET rs == RowSteps(Len(log)) IN
  /\ Len(users) <= Len(rs)
  /\ \A k \in 1..Len(users) : users[k].id = ToInt(log[rs[k] + 1].ret)

\* C16: column reads happen only between a step call that returned 100 and
\* the next step call on that statement.  For each such row the client
\* issues, in this order, one integer-column call for column 0, whose return
\* value is the id with no accessor call in between, then one text-column
\* call for column 1, get_result_ptr, get_result_size and one guest-memory
\* read of that (pointer, size), and only then the next step.
C16_PerRowProtocol ==
  /\ \A j \in 1..Len(log) : RowProtocol(j) /\ ColumnInPlace(j)
  /\ IdsDirect

\* Two rows were read in full and the step after the second was issued.
C16_Witness ==
  /\ RowStepCount >= 2
  /\ Len(users) >= 2
  /\ Last.op = "sqlite3_step"
  /\ \E j \in 1..Len(log) : log[j].op = "read" /\ log[j].args[2] > 1


\* ------------------------------------------------------- C17
\* The number of step calls made so far.
StepCount == Cardinality({j \in 1..Len(log) : log[j].op = "sqlite3_step"})

C17_StepCount ==
  QueryReturned =>
    /\ StepCount = Len(mainUsers) + 1
    /\ \A j \in 1..Len(log) : log[j].op = "sqlite3_step" => log[j].ret # Trap

\* C17: every query call eventually returns or fails, given that each
\* exported call returns or traps and that the step export returns 100 only
\* finitely many times; on normal return the number of step calls made is
\* the number of rows returned plus one.
C17_Termination ==
  /\ []C17_StepCount
  /\ (verb = "query") ~> (QueryReturned \/ Panicked)

\* A query that returned three rows after four step calls.
C17_Witness ==
  /\ QueryReturned
  /\ verb = "query"
  /\ Len(mainUsers) = 3
  /\ StepCount = 4

====
